---- MODULE Spec2Model ----
(***************************************************************************)
(* A model of two subsystems of the storage target:                        *)
(*   - LOM copy management      (cluster/lcopy.go)                         *)
(*   - the transport receiver   (transport/recv.go)                        *)
(* Spec is the LOM state machine: one action per exported operation, each  *)
(* taken atomically (every operation runs under the LOM write lock).       *)
(* RecvSpec is the receive loop of concurrent PUT requests on one handler. *)
(***************************************************************************)
EXTENDS Integers, Sequences, FiniteSets, TLC

\* ---------------------------------------------------------------- bounds
\* utilizations of a snapshot range over 0..MaxUtil
MaxUtil == 1
\* DelCopies is called with at most MaxDel FQNs
MaxDel == 2
\* the configured mirror.Copies ranges over 1..MaxCopiesCfg
MaxCopiesCfg == 3

VARIABLES
    copies,     \* lom.md.copies: FQN -> mountpath (NoMpi: no entry)
    dirty,      \* lom.md is marked dirty (makeDirty)
    files,      \* the object files present on disk (FQNs)
    ret,        \* the last LOM operation: its arguments and what it returned
    sessions,   \* h.sessions: session id -> Stats (NoStats: no entry)
    oldSessions,\* h.oldSessions: session id -> time closed
    now,        \* the wall clock
    pc,         \* where each PUT request stands in handler.receive
    cur,        \* what it.next() last returned to each request
    headerBuf,  \* it.headerBuf of each request: the header words it holds
    desync,     \* the request's parser has lost the frame boundaries of its body
    arrived,    \* the frames each request's body has delivered so far, as sent
    called,     \* the frames (indices into arrived) the callback was invoked for
    resp,       \* the HTTP answer of each request
    swept,      \* the session ids the delayed cleanup has removed so far
    xact,       \* xaction.Registry: the task registered under the uuid, if any
    areq,       \* the request in targetrunner.doAsync: its parameters and progress
    mu,         \* the package-level mutex of the transport: its holder, if any
    at,         \* the statement each goroutine on the handler's maps is executing
    frame,      \* what it.next() returned to each receive loop in this iteration
    reader,     \* an objReader handed to the callback: hdr.Dsize, off, its last Read
    wlock,      \* the exclusive lock of the LOM's uname: its holder, if any
    restorer    \* the callers of RestoreObjectFromAny: where each of them stands

lomVars == <<copies, dirty, files, ret>>
recvVars == <<sessions, oldSessions, now, pc, cur, headerBuf, desync, arrived, called,
              resp, swept>>
asyncVars == <<xact, areq>>
concVars == <<mu, at, frame>>
readVars == <<reader>>
lockVars == <<wlock, restorer>>
vars == <<lomVars, recvVars, asyncVars, concVars, readVars, lockVars>>

\* what the operations of each subsystem leave alone
outsideLom == <<recvVars, asyncVars, concVars, readVars, lockVars>>
outsideRecv == <<lomVars, asyncVars, concVars, readVars, lockVars>>
outsideAsync == <<lomVars, recvVars, concVars, readVars, lockVars>>
outsideMaps == <<lomVars, asyncVars, readVars, lockVars, now, pc, cur, headerBuf, desync,
                arrived, called, resp, swept>>
outsideRead == <<lomVars, recvVars, asyncVars, concVars, lockVars>>
outsideLock == <<ret, recvVars, asyncVars, concVars, readVars>>

\* ------------------------------------------------------------ LOM: data

\* the local mountpaths (fs.MountpathInfo.Path)
Mpaths == {"m1", "m2", "m3"}

\* no entry in a map of mountpaths / a nil *fs.MountpathInfo
NoMpi == "nil"

\* mi.MakePathFQN(lom.Bucket(), fs.ObjectType, lom.ObjName): one FQN per mountpath
MakePathFQN(m) == <<m, "obj">>

\* the FQNs of the object on every mountpath
FQNS == {MakePathFQN(m) : m \in Mpaths}

\* lom.mpathInfo and lom.FQN
lomMpath == "m1"
lomFQN == MakePathFQN(lomMpath)

\* the mountpath a destination LOM is initialized with: the one owning its FQN
MpathOf(fqn) == fqn[1]

\* lom.md.copies == nil (an empty map behaves the same in every operation)
NilCopies == [f \in FQNS |-> NoMpi]

\* the keys of a copies map, and len()
Keys(c) == {f \in FQNS : c[f] # NoMpi}
NumEntries(c) == Cardinality(Keys(c))

\* the permutations of a finite set, as sequences: the orders a Go map may be ranged in
Perms(S) == {s \in [1..Cardinality(S) -> S] : \A i, j \in 1..Cardinality(S) : s[i] = s[j] => i = j}

\* the orders a map keyed by the object's FQNs, or by the mountpaths, may be ranged in:
\* the keys that are present, in the order of one of these
FQNOrders == Perms(FQNS)
MpathOrders == Perms(Mpaths)
RangeOrder(order, present) == SelectSeq(order, LAMBDA x : x \in present)

\* the snapshots fs.GetAllMpathUtils() may return
UtilSnapshots == [Mpaths -> 0..MaxUtil]

\* the snapshots fs.GetAvail() may return: every mountpath is "avail", "dd"
\* (available and flagged WaitingDD) or "absent"
AvailSnapshots == [Mpaths -> {"avail", "dd", "absent"}]

\* the sequences over S of length at most n
SeqsUpTo(S, n) == UNION {[1..k -> S] : k \in 0..n}

\* the elements of a sequence
Range(s) == {s[i] : i \in 1..Len(s)}

\* ------------------------------------------------------- LOM: functions

NumCopies(c) == IF NumEntries(c) > 1 THEN NumEntries(c) ELSE 1
HasCopies(c) == NumCopies(c) > 1

delCopyMd(c, copyFQN) ==
    LET d == [c EXCEPT ![copyFQN] = NoMpi]
    IN  IF NumEntries(d) <= 1 THEN NilCopies ELSE d

\* a plausible slip: the arguments' entry is written after the LOM's own
AddCopyMd_OwnFirst(c, copyFQN, mpi) == [[c EXCEPT ![lomFQN] = lomMpath] EXCEPT ![copyFQN] = mpi]

\* AddCopy up to its call of syncMetaWithCopies
AddCopyMd(c, copyFQN, mpi) == [[c EXCEPT ![copyFQN] = mpi] EXCEPT ![lomFQN] = lomMpath]

\* the copies persistMdOnCopies writes the metadata to: every copy but the LOM itself,
\* whose own metadata lom.Persist() writes
PersistTargets(c) == Keys(c) \ {lomFQN}

\* a plausible slip: the loop is left after the first failed round
persistLoop_OneRound(c, dropped) ==
    {[copies |-> c, dropped |-> dropped, persisted |-> PersistTargets(c)]}
    \cup {[copies |-> delCopyMd(c, f), dropped |-> Append(dropped, f), persisted |-> {}]
            : f \in PersistTargets(c)}

\* the loop of syncMetaWithCopies under immediate write policy: every round either
\* persists everywhere or fails on one copy, which is dropped; the outcomes are the
\* maps the loop can end with, the copies the failed rounds dropped, in order, and the
\* copies the last round persisted the metadata on
RECURSIVE persistLoop(_, _)
persistLoop(c, dropped) ==
    {[copies |-> c, dropped |-> dropped, persisted |-> PersistTargets(c)]}
    \cup UNION {persistLoop(delCopyMd(c, f), Append(dropped, f)) : f \in PersistTargets(c)}

\* syncMetaWithCopies on copies c and dirty flag d, with what its loop did
syncMetaRounds(c, d, immediate) ==
    IF ~HasCopies(c) THEN {[copies |-> c, dirty |-> d, dropped |-> <<>>, persisted |-> {}]}
    ELSE IF ~immediate THEN {[copies |-> c, dirty |-> TRUE, dropped |-> <<>>, persisted |-> {}]}
    ELSE {[copies |-> o.copies, dirty |-> d, dropped |-> o.dropped, persisted |-> o.persisted]
            : o \in persistLoop(c, <<>>)}

\* syncMetaWithCopies on copies c and dirty flag d: the outcomes [copies, dirty, failed],
\* failed saying that a round failed; the error it returns is nil on every path
syncMetaWithCopies(c, d, immediate) ==
    {[copies |-> o.copies, dirty |-> o.dirty, failed |-> o.dropped # <<>>]
        : o \in syncMetaRounds(c, d, immediate)}

\* a plausible slip: the loop is left after the first FQN
delLoop_FirstOnly(c, F) ==
    IF F = <<>> THEN [copies |-> c, err |-> FALSE]
    ELSE IF Head(F) \notin Keys(c) THEN [copies |-> c, err |-> TRUE]
    ELSE [copies |-> delCopyMd(c, Head(F)), err |-> FALSE]

\* step 1 of DelCopies: check and delete, one FQN after the other
RECURSIVE delLoop(_, _)
delLoop(c, F) ==
    IF F = <<>> THEN [copies |-> c, err |-> FALSE]
    ELSE IF Head(F) \notin Keys(c) THEN [copies |-> c, err |-> TRUE]
    ELSE delLoop(delCopyMd(c, Head(F)), Tail(F))

\* a plausible slip: the comparison admits ties, so a copy replaces the incumbent
RECURSIVE leastUtilCopy_Ties(_, _, _, _, _)
leastUtilCopy_Ties(c, utils, order, fqn, minUtil) ==
    IF order = <<>> THEN fqn
    ELSE LET copyFQN == Head(order)
             util == utils[c[copyFQN]]
         IN  IF copyFQN # lomFQN /\ util <= minUtil
             THEN leastUtilCopy_Ties(c, utils, Tail(order), copyFQN, util)
             ELSE leastUtilCopy_Ties(c, utils, Tail(order), fqn, minUtil)

\* the loop of leastUtilCopy over the copies in the order the map is ranged
RECURSIVE leastUtilCopy(_, _, _, _, _)
leastUtilCopy(c, utils, order, fqn, minUtil) ==
    IF order = <<>> THEN fqn
    ELSE LET copyFQN == Head(order)
             util == utils[c[copyFQN]]
         IN  IF copyFQN # lomFQN /\ util < minUtil
             THEN leastUtilCopy(c, utils, Tail(order), copyFQN, util)
             ELSE leastUtilCopy(c, utils, Tail(order), fqn, minUtil)

\* LBGet on a utilization snapshot
LBGet(c, utils, order) ==
    IF ~HasCopies(c) THEN lomFQN
    ELSE leastUtilCopy(c, utils, order, lomFQN, utils[lomMpath])

haveMpath(c, mpath) ==
    IF NumEntries(c) = 0 THEN lomMpath = mpath
    ELSE \E f \in Keys(c) : c[f] = mpath

\* minUtil of LeastUtilNoCopy starts above every utilization
InitMinUtil == 101

\* the loop of LeastUtilNoCopy over the available mountpaths in the order ranged;
\* status[m] is "avail", "dd" (available, flagged WaitingDD) or "absent"
RECURSIVE LeastUtilNoCopy(_, _, _, _, _, _)
LeastUtilNoCopy(c, status, utils, order, mi, minUtil) ==
    IF order = <<>> THEN mi
    ELSE LET mpath == Head(order)
         IN  IF haveMpath(c, mpath) \/ status[mpath] = "dd"
             THEN LeastUtilNoCopy(c, status, utils, Tail(order), mi, minUtil)
             ELSE IF utils[mpath] < minUtil
                  THEN LeastUtilNoCopy(c, status, utils, Tail(order), mpath, utils[mpath])
                  ELSE LeastUtilNoCopy(c, status, utils, Tail(order), mi, minUtil)

\* the pruning loop of ToMpath: it ranges over the map it started with (old) while
\* delCopyMd changes, and may reset, lom.md.copies (left)
RECURSIVE pruneCopies(_, _, _, _, _)
pruneCopies(old, left, got, order, status) ==
    IF order = <<>> THEN [copies |-> left, got |-> got]
    ELSE LET fqn == Head(order)
         IN  IF status[old[fqn]] # "avail"
             THEN pruneCopies(old, delCopyMd(left, fqn), got, Tail(order), status)
             ELSE pruneCopies(old, left, got + 1, Tail(order), status)

\* what the HrwMpath oracle may answer: an error, or an available mountpath that is
\* not flagged WaitingDD
HrwOutcomes(status) == {NoMpi} \cup {m \in Mpaths : status[m] = "avail"}

\* a plausible slip: the comparison with the HRW mountpath is inverted
ToMpathHrw_Inverted(hrwMi) ==
    IF hrwMi = NoMpi THEN [done |-> TRUE, mi |-> NoMpi, isHrw |-> FALSE]
    ELSE IF lomMpath = hrwMi THEN [done |-> TRUE, mi |-> hrwMi, isHrw |-> TRUE]
    ELSE [done |-> FALSE, mi |-> NoMpi, isHrw |-> FALSE]

\* the first part of ToMpath: the oracle's error and the HRW check
ToMpathHrw(hrwMi) ==
    IF hrwMi = NoMpi THEN [done |-> TRUE, mi |-> NoMpi, isHrw |-> FALSE]
    ELSE IF lomMpath # hrwMi THEN [done |-> TRUE, mi |-> hrwMi, isHrw |-> TRUE]
    ELSE [done |-> FALSE, mi |-> NoMpi, isHrw |-> FALSE]

\* ---------------------------------------------------------- LOM: actions

LomInit ==
    /\ copies = NilCopies
    /\ dirty = FALSE
    /\ files = {lomFQN}
    /\ ret = [op |-> "none"]

\* no operation is running on the LOM: the caller has taken the last one's result
Idle == ret.op = "none"

\* syncMetaWithCopies under either write policy (lom.WritePolicy() is the bucket's)
SyncAnyPolicy(c, d) == UNION {syncMetaWithCopies(c, d, immediate) : immediate \in BOOLEAN}

\* AddCopy(copyFQN, mpi)
AddCopy ==
    /\ Idle
    /\ UNCHANGED outsideLom
    /\ \E copyFQN \in FQNS, mpi \in Mpaths :
        \E o \in SyncAnyPolicy(AddCopyMd(copies, copyFQN, mpi), dirty) :
            /\ copies' = o.copies
            /\ dirty' = o.dirty
            /\ ret' = [op |-> "AddCopy", fqn |-> copyFQN, mpi |-> mpi, err |-> FALSE,
                       failed |-> o.failed]
            /\ UNCHANGED files

\* steps 2 and 3 of DelCopies after step 1 ended with d: the error return leaves the
\* files alone; RemoveFile is best effort, so any of the files may stay
DelCopiesRest(F, d, op) ==
    IF d.err
    THEN /\ copies' = d.copies
         /\ ret' = [op |-> op, F |-> Range(F), err |-> TRUE]
         /\ UNCHANGED <<dirty, files>>
    ELSE \E o \in SyncAnyPolicy(d.copies, dirty) :
            /\ copies' = o.copies
            /\ dirty' = o.dirty
            /\ files' \in {files \ removed : removed \in SUBSET Range(F)}
            /\ ret' = [op |-> op, F |-> Range(F), err |-> FALSE]

\* DelCopies(copiesFQN...)
DelCopies ==
    /\ Idle
    /\ UNCHANGED outsideLom
    /\ \E F \in SeqsUpTo(FQNS, MaxDel) :
        DelCopiesRest(F, delLoop(copies, F), "DelCopies")

\* DelAllCopies: DelCopies of every key but the LOM's own, in the order ranged
DelAllCopies ==
    /\ Idle
    /\ UNCHANGED outsideLom
    /\ \E F \in {RangeOrder(order, Keys(copies) \ {lomFQN}) : order \in FQNOrders} :
        DelCopiesRest(F, delLoop(copies, F), "DelAllCopies")

\* syncMetaWithCopies called on its own
SyncMeta ==
    /\ Idle
    /\ UNCHANGED outsideLom
    /\ \E immediate \in BOOLEAN :
        \E o \in syncMetaRounds(copies, dirty, immediate) :
            /\ copies' = o.copies
            /\ dirty' = o.dirty
            /\ ret' = [op |-> "syncMetaWithCopies", err |-> FALSE,
                       failed |-> o.dropped # <<>>, immediate |-> immediate,
                       dropped |-> o.dropped, persisted |-> o.persisted]
            /\ UNCHANGED files

\* the second half of Copy, from the label add: AddCopy (its result is dropped), Persist,
\* and on success syncMetaWithCopies again; persisted says Persist succeeds
CopyAdd(c, d, copyFQN, mi, immediate, persisted) ==
    UNION {IF ~persisted
           THEN {[copies |-> delCopyMd(a.copies, copyFQN), dirty |-> a.dirty, err |-> TRUE]}
           ELSE {[copies |-> o.copies, dirty |-> o.dirty, err |-> FALSE] :
                    o \in syncMetaWithCopies(a.copies, a.dirty, immediate)}
           : a \in syncMetaWithCopies(AddCopyMd(c, copyFQN, mi), d, immediate)}

\* Copy(mi, buf): identical says the destination loads and is Equal to the LOM;
\* copied says CopyFile and Rename both succeed; the result keeps whether the copying
\* was skipped and whether Persist failed
Copy ==
    /\ Idle
    /\ UNCHANGED outsideLom
    /\ \E mi \in Mpaths, identical, copied \in BOOLEAN :
        LET copyFQN == MakePathFQN(mi)
            skip == copyFQN \in files /\ identical
        IN  IF ~skip /\ ~(copied /\ lomFQN \in files)
            THEN /\ ret' = [op |-> "Copy", mi |-> mi, err |-> TRUE, skipped |-> FALSE,
                            persistErr |-> FALSE]
                 /\ UNCHANGED <<copies, dirty, files>>
            ELSE \E immediate, persisted \in BOOLEAN :
                 \E o \in CopyAdd(copies, dirty, copyFQN, mi, immediate, persisted) :
                    /\ files' = files \cup {copyFQN}
                    /\ copies' = o.copies
                    /\ dirty' = o.dirty
                    /\ ret' = [op |-> "Copy", mi |-> mi, err |-> o.err, skipped |-> skip,
                               persistErr |-> ~persisted]

\* the FQN of an object of another bucket: a destination that is no mirror
OtherFQN == <<"m2", "other">>

\* Copy2FQN(dstFQN, buf): started says that dst.Init, CopyFile and Rename succeed,
\* verified that the checksums agree (or are not compared), mirror that
\* MirrorConf().Enabled, persisted that Persist succeeds; the result keeps whether the
\* destination is a mirror and dst.md.copies, which starts as a copy of lom.md.copies
\* and gets the same two entries
Copy2FQN ==
    /\ Idle
    /\ UNCHANGED outsideLom
    /\ \E dstFQN \in FQNS \cup {OtherFQN}, started \in BOOLEAN :
        LET written == IF dstFQN \in FQNS THEN files \cup {dstFQN} ELSE files
            out(err, dstNil) == [op |-> "Copy2FQN", dst |-> dstFQN, err |-> err, dstNil |-> dstNil,
                                 isMirror |-> FALSE, dstCopies |-> NilCopies]
        IN  IF ~(started /\ lomFQN \in files)
            THEN /\ ret' = out(TRUE, FALSE)
                 /\ UNCHANGED <<copies, dirty, files>>
            ELSE \E verified \in BOOLEAN :
                 IF ~verified
                 THEN /\ files' = written
                      /\ ret' = out(TRUE, TRUE)
                      /\ UNCHANGED <<copies, dirty>>
                 ELSE \E mirror, persisted \in BOOLEAN :
                      IF mirror /\ dstFQN \in FQNS
                      THEN LET spliced == [[copies EXCEPT ![dstFQN] = MpathOf(dstFQN)]
                                                    EXCEPT ![lomFQN] = lomMpath]
                           IN  \E o \in SyncAnyPolicy(spliced, dirty) :
                                  /\ copies' = o.copies
                                  /\ dirty' = o.dirty
                                  /\ files' = written
                                  /\ ret' = [out(~persisted, FALSE) EXCEPT
                                                !.isMirror = TRUE, !.dstCopies = spliced]
                      ELSE /\ files' \in (IF persisted THEN {written} ELSE {written, files \ {dstFQN}})
                           /\ ret' = out(~persisted, FALSE)
                           /\ UNCHANGED <<copies, dirty>>

\* LBGet() on a snapshot of the utilizations, the copies ranged in any order
LBGetOp ==
    /\ Idle
    /\ UNCHANGED outsideLom
    /\ \E utils \in UtilSnapshots :
        \E fqn \in {LBGet(copies, utils, ranged) :
                        ranged \in {RangeOrder(order, Keys(copies)) : order \in FQNOrders}} :
            /\ ret' = [op |-> "LBGet", utils |-> utils, fqn |-> fqn]
            /\ UNCHANGED <<copies, dirty, files>>

\* the snapshots of fs.GetAvail() under which the oracle may answer hrwMi
Snapshots(hrwMi) == {st \in AvailSnapshots : hrwMi \in HrwOutcomes(st)}

\* ToMpath() on a snapshot of the available mountpaths and the oracle's answer;
\* enabled and expCopies are MirrorConf().Enabled and MirrorConf().Copies; the result
\* keeps what the call has read: the configuration, the snapshots, and how far it went
ToMpath ==
    /\ Idle
    /\ UNCHANGED outsideLom
    /\ \E hrwMi \in Mpaths \cup {NoMpi} :
        LET h == ToMpathHrw(hrwMi)
            out(mi, isHrw) == [op |-> "ToMpath", hrwMi |-> hrwMi, mi |-> mi, isHrw |-> isHrw,
                               stage |-> "hrw"]
        IN  IF h.done
            THEN /\ ret' = out(h.mi, h.isHrw)
                 /\ UNCHANGED <<copies, dirty, files>>
            ELSE \E enabled \in BOOLEAN, expCopies \in 1..MaxCopiesCfg :
                 LET conf == [out(NoMpi, FALSE) EXCEPT !.stage = "conf"]
                                @@ [enabled |-> enabled, expCopies |-> expCopies]
                 IN  IF ~enabled \/ expCopies < 2
                     THEN /\ ret' = conf
                          /\ UNCHANGED <<copies, dirty, files>>
                     ELSE \E status \in Snapshots(hrwMi) :
                          \E p \in {pruneCopies(copies, copies, 0, ranged, status) :
                                        ranged \in {RangeOrder(order, Keys(copies)) : order \in FQNOrders}} :
                            LET present == {m \in Mpaths : status[m] # "absent"}
                                count == [conf EXCEPT !.stage = "count"] @@ [status |-> status]
                            IN  /\ copies' = p.copies
                                /\ UNCHANGED <<dirty, files>>
                                /\ IF expCopies <= p.got
                                   THEN ret' = count
                                   ELSE \E utils \in UtilSnapshots :
                                        \E avail \in {RangeOrder(order, present) : order \in MpathOrders} :
                                            ret' = [count EXCEPT
                                                        !.stage = "place",
                                                        !.mi = LeastUtilNoCopy(p.copies, status, utils,
                                                                    avail, NoMpi, InitMinUtil)]
                                                   @@ [utils |-> utils]

\* the copies maps a replica's metadata may load with: its entries name the
\* mountpaths owning their FQNs
LoadedCopies == {c \in [FQNS -> Mpaths \cup {NoMpi}] : \A f \in FQNS : c[f] \in {NoMpi, MpathOf(f)}}

\* _restore(fqn, buf) with the files f on disk: the source LOM at fqn is initialized and
\* loaded, and its Copy2FQN(lom.FQN, buf) makes the destination LOM; the outcomes are
\* the error, the files left, and the destination's md.copies
restoreOne(fqn, f) ==
    LET written == f \cup {lomFQN}
        out(err, fs, c) == [err |-> err, files |-> fs, dstCopies |-> c]
    IN  \* src.Init, src.Load, dst.Init, CopyFile or Rename fails
        {out(TRUE, f, NilCopies)}
        \* the checksums differ
        \cup {out(TRUE, written, NilCopies)}
        \* the mirror case: both maps get the two entries, the source persists
        \cup {out(~persisted, written,
                  [[c EXCEPT ![lomFQN] = lomMpath] EXCEPT ![fqn] = MpathOf(fqn)])
                : c \in LoadedCopies, persisted \in BOOLEAN}
        \* no mirror: the destination persists, or its file is removed, best effort
        \cup {out(FALSE, written, NilCopies)}
        \cup {out(TRUE, fs, NilCopies) : fs \in {written, f \ {lomFQN}}}

\* a plausible slip: the scan goes on after a mountpath has restored the object
RECURSIVE restoreScan_NoBreak(_, _, _, _)
restoreScan_NoBreak(order, f, tried, done) ==
    IF order = <<>> THEN {[done EXCEPT !.files = f, !.tried = tried]}
    ELSE LET path == Head(order)
             fqn == MakePathFQN(path)
         IN  IF path = lomMpath \/ fqn \notin f
             THEN restoreScan_NoBreak(Tail(order), f, tried, done)
             ELSE UNION {restoreScan_NoBreak(Tail(order), o.files, Append(tried, path),
                            IF o.err THEN done
                            ELSE [done EXCEPT !.exists = TRUE, !.from = path,
                                              !.dstCopies = o.dstCopies])
                            : o \in restoreOne(fqn, f)}

\* the scan of RestoreObjectFromAny over the available mountpaths in the order ranged:
\* the LOM's own mountpath and those without the file are passed over, the others are
\* tried until one restores; done is the result so far
RECURSIVE restoreScan(_, _, _, _)
restoreScan(order, f, tried, done) ==
    IF order = <<>> THEN {[done EXCEPT !.files = f, !.tried = tried]}
    ELSE LET path == Head(order)
             fqn == MakePathFQN(path)
         IN  IF path = lomMpath \/ fqn \notin f
             THEN restoreScan(Tail(order), f, tried, done)
             ELSE UNION {IF o.err
                         THEN restoreScan(Tail(order), o.files, Append(tried, path), done)
                         ELSE {[done EXCEPT !.exists = TRUE, !.from = path,
                                            !.dstCopies = o.dstCopies,
                                            !.files = o.files,
                                            !.tried = Append(tried, path)]}
                            : o \in restoreOne(fqn, f)}

\* RestoreObjectFromAny(): loaded says lom.Load succeeds, which takes the file at the
\* current location; a restore replaces lom.md by the destination's, which is clean
RestoreObjectFromAny ==
    /\ Idle
    /\ UNCHANGED outsideLom
    /\ \E loaded \in BOOLEAN :
        LET start == [op |-> "RestoreObjectFromAny", exists |-> FALSE, loaded |-> FALSE,
                      from |-> NoMpi, dstCopies |-> NilCopies, files |-> files,
                      tried |-> <<>>]
        IN  IF loaded /\ lomFQN \in files
            THEN /\ ret' = [start EXCEPT !.exists = TRUE, !.loaded = TRUE]
                 /\ UNCHANGED <<copies, dirty, files>>
            ELSE \E status \in AvailSnapshots :
                 \E avail \in {RangeOrder(order, {m \in Mpaths : status[m] # "absent"})
                                  : order \in MpathOrders} :
                 \E o \in restoreScan(avail, files, <<>>, start) :
                    /\ ret' = o
                    /\ files' = o.files
                    /\ IF o.exists
                       THEN copies' = o.dstCopies /\ dirty' = FALSE
                       ELSE UNCHANGED <<copies, dirty>>

\* IsCopy(): the LOM is not at its HRW location and its own FQN is in md.copies
IsCopy(c, isHRW) == ~isHRW /\ c[lomFQN] # NoMpi

\* the FQNs DelExtraCopies calls RemoveFile on: those of the available mountpaths
\* that are not in md.copies
extraCopies(c, status) ==
    {MakePathFQN(m) : m \in {a \in Mpaths : status[a] # "absent"}} \ Keys(c)

\* DelExtraCopies(fqn...): isHRW is lom.IsHRW(); every RemoveFile may fail, and the
\* result keeps the files that were unlinked
DelExtraCopies ==
    /\ Idle
    /\ UNCHANGED outsideLom
    /\ \E isHRW \in BOOLEAN, arg \in FQNS :
        IF IsCopy(copies, isHRW)
        THEN /\ ret' = [op |-> "DelExtraCopies", whinged |-> TRUE, removed |-> FALSE,
                        err |-> FALSE, unlinked |-> {}]
             /\ UNCHANGED <<copies, dirty, files>>
        ELSE \E status \in AvailSnapshots :
             \E gone \in SUBSET extraCopies(copies, status) :
                /\ files' = files \ gone
                /\ ret' = [op |-> "DelExtraCopies", whinged |-> FALSE,
                           removed |-> arg \in gone,
                           err |-> gone # extraCopies(copies, status),
                           unlinked |-> files \cap gone]
                /\ UNCHANGED <<copies, dirty>>

\* the caller takes the result of the operation
Return ==
    /\ ~Idle
    /\ UNCHANGED outsideLom
    /\ ret' = [op |-> "none"]
    /\ UNCHANGED <<copies, dirty, files>>

LomNext ==
    \/ AddCopy
    \/ DelCopies
    \/ DelAllCopies
    \/ SyncMeta
    \/ Copy
    \/ Copy2FQN
    \/ LBGetOp
    \/ ToMpath
    \/ RestoreObjectFromAny
    \/ DelExtraCopies
    \/ Return

\* ------------------------------------------------------ transport: bounds
\* the bodies of the requests deliver at most MaxFrames frame headers between them
MaxFrames == 2
\* object sizes (Header.Dsize) range over 0..MaxDsize
MaxDsize == 1
\* the clock runs over 0..MaxTime
MaxTime == 3
\* the width of a wire word in bits, scaled down from 64
WordBits == 16

\* -------------------------------------------------------- transport: data

\* the PUT requests the handler serves, concurrently, and the session each one carries
Reqs == {"r1", "r2"}
Sids == {1, 2}
SessOf(r) == IF r = "r1" THEN 1 ELSE 2
\* the values of a frame's session id word
SessIds == {0} \cup Sids

\* const cleanupTimeout = time.Minute, in ticks of the clock
cleanupTimeout == 2

sizeofI64 == 8
MaxHeaderSize == 1024
\* the length of a header with empty bucket, objname and opaque: three length words,
\* the session id, the object size
HdrLen == 5 * sizeofI64

NoStats == [nil |-> TRUE]
ZeroStats == [num |-> 0, size |-> 0, offset |-> 0]
\* an entry of h.oldSessions is the set of the time it holds: none when the id is no key
NoTime == {}

\* Header.IsLast(): the last-frame marker
IsLast(hdr) == hdr.dsize = 0

\* xoshiro256.Hash of the header-length word, and a word that differs from it
Hash(w) == <<"xoshiro256", w>>
Tampered(w) == <<"tampered", w>>

\* extInt64: the word read as unsigned, converted to a signed integer of the same width
extInt64(w) == IF w >= 2^(WordBits - 1) THEN w - 2^WordBits ELSE w

\* ExtHeader(body, hlen): the session id and the header decoded from the buffer
ExtHeader(buf) == [sessid |-> buf.sessid, dsize |-> buf.dsize]

\* what a Read of the body may do to the iterator: the prefix read gets 16 bytes
\* ("full") or fewer with io.EOF ("eof"), with another error ("err") or with no error
\* ("short"); then hl and checksum are the two words read; the header read gets
\* nothing ("none", with error herr), all of the header ("full"), or stops short with no
\* error before the session id word ("cutSessid") or before the size word ("cutDsize");
\* sessid and dsize are the words of the header as sent
Read(p, hl, checksum, n, herr, sessid, dsize) ==
    [p |-> p, hl |-> hl, checksum |-> checksum, n |-> n, herr |-> herr,
     sessid |-> sessid, dsize |-> dsize]

Reads(r) ==
    {Read(p, 0, Hash(0), "none", "nil", 0, 0) : p \in {"eof", "err", "short"}}
    \cup {Read("full", hl, Hash(hl), "none", "nil", 0, 0) :
              hl \in {MaxHeaderSize + 1, 2^(WordBits - 1) + HdrLen}}
    \cup {Read("full", hl, Tampered(hl), "none", "nil", 0, 0) :
              hl \in {HdrLen, 2^(WordBits - 1) + HdrLen}}
    \cup {Read("full", hl, Hash(hl), "none", herr, 0, 0) :
              hl \in {0, HdrLen}, herr \in {"nil", "EOF", "other"}}
    \cup {Read("full", HdrLen, Hash(HdrLen), n, "nil", sessid, dsize) :
              n \in {"cutSessid", "cutDsize", "full"},
              sessid \in {0, SessOf(r)}, dsize \in 0..MaxDsize}

\* the header buffer after body.Read(it.headerBuf[:hlen]): the words not read are stale
readHeader(buf, in) ==
    [sessid |-> IF in.n = "cutSessid" THEN buf.sessid ELSE in.sessid,
     dsize |-> IF in.n = "full" THEN in.dsize ELSE buf.dsize]

\* a plausible slip: the hash word is not looked at
checksumMismatch_Never(in) == FALSE

\* checksum != xoshiro256.Hash(uint64(hl64))
checksumMismatch(in) == in.checksum # Hash(in.hl)

\* iterator.next() on the header buffer buf when the body reads as in
next(buf, in) ==
    LET ret0(sessid, hl64, err) ==
            [panic |-> FALSE, obj |-> FALSE, sessid |-> sessid, hl64 |-> hl64,
             err |-> err, dsize |-> 0, buf |-> buf, parsed |-> FALSE]
        crash == [panic |-> TRUE, obj |-> FALSE, sessid |-> 0, hl64 |-> 0,
                  err |-> "nil", dsize |-> 0, buf |-> buf, parsed |-> FALSE]
        hl64 == extInt64(in.hl)
        hlen == hl64
    IN  IF in.p = "short" THEN crash
        ELSE IF in.p = "eof" THEN ret0(0, 0, "EOF")
        ELSE IF in.p = "err" THEN ret0(0, 0, "other")
        ELSE IF hlen > MaxHeaderSize THEN ret0(0, hl64, "breakage1")
        ELSE IF checksumMismatch(in) THEN ret0(0, hl64, "breakage2")
        ELSE IF hlen < 0 THEN crash
        ELSE IF hlen = 0 \/ in.n = "none" THEN ret0(0, hl64 + sizeofI64 * 2, in.herr)
        ELSE LET got == readHeader(buf, in)
                 hdr == ExtHeader(got)
             IN  IF IsLast(hdr)
                 THEN [panic |-> FALSE, obj |-> FALSE, sessid |-> hdr.sessid,
                       hl64 |-> hl64 + sizeofI64 * 2, err |-> "EOF", dsize |-> hdr.dsize,
                       buf |-> got, parsed |-> TRUE]
                 ELSE [panic |-> FALSE, obj |-> TRUE, sessid |-> hdr.sessid,
                       hl64 |-> hl64 + sizeofI64 * 2, err |-> "nil", dsize |-> hdr.dsize,
                       buf |-> got, parsed |-> TRUE]

\* the entries of h.oldSessions closed more than cleanupTimeout before t
Expired(old, t) == {id \in Sids : \E closed \in old[id] : t - closed > cleanupTimeout}

\* a plausible slip: the cleanup forgets the live entry
cleanupSessions_KeepLive(sess, old, t) == sess

\* the delayed cleanup, on h.sessions
cleanupSessions(sess, old, t) ==
    [id \in Sids |-> IF id \in Expired(old, t) THEN NoStats ELSE sess[id]]

\* the delayed cleanup, on h.oldSessions, and then h.oldSessions[sessid] = time.Now()
cleanupOldSessions(old, t, sessid) ==
    [id \in Sids |-> IF id = sessid THEN {t}
                     ELSE IF id \in Expired(old, t) THEN NoTime ELSE old[id]]

\* ----------------------------------------------------- transport: actions

\* what the parser takes for a header once it has lost the frame boundaries
Garbage == [garbage |-> TRUE]

\* hl and checksum are the words of the prefix last read in full
NoResult == [obj |-> FALSE, sessid |-> 0, dsize |-> 0, err |-> "nil", hl |-> 0,
             checksum |-> Hash(0)]
ZeroBuf == [sessid |-> 0, dsize |-> 0]

RecvInit ==
    /\ sessions = [id \in Sids |-> NoStats]
    /\ oldSessions = [id \in Sids |-> NoTime]
    /\ now = 0
    /\ pc = [r \in Reqs |-> "idle"]
    /\ cur = [r \in Reqs |-> NoResult]
    /\ headerBuf = [r \in Reqs |-> ZeroBuf]
    /\ desync = [r \in Reqs |-> FALSE]
    /\ arrived = [r \in Reqs |-> <<>>]
    /\ called = [r \in Reqs |-> <<>>]
    /\ resp = [r \in Reqs |-> "none"]
    /\ swept = {}

\* the frame headers delivered so far
RECURSIVE SumLen(_, _)
SumLen(f, S) == IF S = {} THEN 0
                ELSE LET x == CHOOSE y \in S : TRUE IN Len(f[x]) + SumLen(f, S \ {x})
NumArrived == SumLen(arrived, Reqs)

\* a request reaches handler.receive: it is turned away unless it is a PUT to the
\* handler's trname, else its iterator is made, with a zeroed header buffer
Start(r) ==
    /\ pc[r] = "idle"
    /\ UNCHANGED outsideRecv
    /\ \E valid \in BOOLEAN :
        /\ pc' = [pc EXCEPT ![r] = IF valid THEN "next" ELSE "done"]
        /\ resp' = [resp EXCEPT ![r] = IF valid THEN "none" ELSE "400"]
    /\ UNCHANGED <<sessions, oldSessions, now, cur, headerBuf, desync, arrived, called, swept>>

\* the head of the loop: it.next(), then the Stats entry of the session is made if it
\* is missing, and the frame's length is added to its offset
RecvFrame(r) ==
    /\ pc[r] = "next"
    /\ UNCHANGED outsideRecv
    /\ \E in \in Reads(r) :
        LET o == next(headerBuf[r], in)
            known == IF sessions[o.sessid] = NoStats THEN ZeroStats ELSE sessions[o.sessid]
        IN  /\ o.parsed => NumArrived < MaxFrames
            /\ pc' = [pc EXCEPT ![r] = IF o.panic THEN "panic"
                                       ELSE IF o.obj THEN "callback"
                                       ELSE IF o.err # "nil" THEN "term"
                                       ELSE "next"]
            /\ resp' = [resp EXCEPT ![r] = IF o.panic THEN "panic" ELSE @]
            /\ cur' = [cur EXCEPT ![r] = [obj |-> o.obj, sessid |-> o.sessid,
                                          dsize |-> o.dsize, err |-> o.err,
                                          hl |-> in.hl, checksum |-> in.checksum]]
            /\ headerBuf' = [headerBuf EXCEPT ![r] = o.buf]
            /\ sessions' = IF o.sessid = 0 THEN sessions
                           ELSE [sessions EXCEPT ![o.sessid] =
                                    [known EXCEPT !.offset = @ + o.hl64]]
            /\ arrived' = IF o.parsed
                          THEN [arrived EXCEPT ![r] = Append(@,
                                   IF desync[r] THEN Garbage
                                   ELSE [sessid |-> in.sessid, dsize |-> in.dsize])]
                          ELSE arrived
            /\ desync' = [desync EXCEPT ![r] =
                             @ \/ (o.parsed /\ in.n # "full")
                               \/ (~o.panic /\ in.p = "full" /\ o.err = "nil" /\ ~o.obj
                                   /\ in.hl # 0)]
    /\ UNCHANGED <<oldSessions, now, called, swept>>

\* h.callback(w, objReader.hdr, objReader): the callback drains the object and returns
Callback(r) ==
    /\ pc[r] = "callback"
    /\ UNCHANGED outsideRecv
    /\ called' = [called EXCEPT ![r] = Append(@, Len(arrived[r]))]
    /\ pc' = [pc EXCEPT ![r] = "stats"]
    /\ UNCHANGED <<sessions, oldSessions, now, cur, headerBuf, desync, arrived, resp, swept>>

\* the three atomic additions after the callback; stats is nil when sessid is 0, and a
\* Stats the cleanup has taken out of the map meanwhile is updated out of sight
UpdateStats(r) ==
    /\ pc[r] = "stats"
    /\ UNCHANGED outsideRecv
    /\ IF cur[r].sessid = 0
       THEN /\ pc' = [pc EXCEPT ![r] = "panic"]
            /\ resp' = [resp EXCEPT ![r] = "panic"]
            /\ UNCHANGED sessions
       ELSE /\ pc' = [pc EXCEPT ![r] = "next"]
            /\ sessions' = IF sessions[cur[r].sessid] = NoStats THEN sessions
                           ELSE [sessions EXCEPT ![cur[r].sessid] =
                                    [num |-> @.num + 1,
                                     size |-> @.size + cur[r].dsize,
                                     offset |-> @.offset + cur[r].dsize]]
            /\ UNCHANGED resp
    /\ UNCHANGED <<oldSessions, now, cur, headerBuf, desync, arrived, called, swept>>

\* the loop ends on err: the delayed cleanup and the record of the closed session when
\* sessid is not 0, and the 400 unless err is io.EOF
Terminal(r) ==
    /\ pc[r] = "term"
    /\ UNCHANGED outsideRecv
    /\ IF cur[r].sessid # 0
       THEN /\ sessions' = cleanupSessions(sessions, oldSessions, now)
            /\ oldSessions' = cleanupOldSessions(oldSessions, now, cur[r].sessid)
            /\ swept' = swept \cup Expired(oldSessions, now)
       ELSE UNCHANGED <<sessions, oldSessions, swept>>
    /\ resp' = [resp EXCEPT ![r] = IF cur[r].err = "EOF" THEN "200" ELSE "400"]
    /\ pc' = [pc EXCEPT ![r] = "done"]
    /\ UNCHANGED <<now, cur, headerBuf, desync, arrived, called>>

\* time passes; the clock is only read against the entries of h.oldSessions, so it is
\* left alone while none of them is still to expire
Tick ==
    /\ now < MaxTime
    /\ \E id \in Sids : oldSessions[id] # NoTime /\ id \notin Expired(oldSessions, now)
    /\ now' = now + 1
    /\ UNCHANGED outsideRecv
    /\ UNCHANGED <<sessions, oldSessions, pc, cur, headerBuf, desync, arrived, called,
                   resp, swept>>

RecvNext ==
    \/ \E r \in Reqs : Start(r)
    \/ \E r \in Reqs : RecvFrame(r)
    \/ \E r \in Reqs : Callback(r)
    \/ \E r \in Reqs : UpdateStats(r)
    \/ \E r \in Reqs : Terminal(r)
    \/ Tick

\* ------------------------------------------------- async dispatcher: data

\* cmn.ActListObjects, cmn.ActSummaryBucket, and an action that is neither
Actions == {"list", "summary", "other"}
\* cmn.TaskStart, cmn.TaskResult, and the polling of the status
TaskActions == {"start", "status", "result"}

\* xaction.Registry.GetXact(uuid) == nil
NoXact == [kind |-> "none"]
\* a task just created by a Renew
NewXact(kind) == [kind |-> kind, finished |-> FALSE, err |-> "nil", pending |-> 0]

\* the status invalmsghdlr answers with when it is given none
DefaultErrStatus == "500"
\* the statuses a list task reports with an error of its own, and without an error
TaskErrStatuses == {"400", "500"}
TaskOkStatuses == {"200", "202"}

\* what a list task answers down the channel to Do(action, msg, ch): ErrGone when it
\* was evicted after the caller got hold of it, else its status, with or without error
BckListResps(gone) ==
    IF gone THEN {[status |-> "410", err |-> "ErrGone"]}
    ELSE {[status |-> st, err |-> "nil"] : st \in TaskOkStatuses}
         \cup {[status |-> st, err |-> "other"] : st \in TaskErrStatuses}

\* a plausible slip: the sequence is run again after any error
retryStart_AnyError(err) == err # "nil"

\* err == bcklist.ErrGone: the renew / IncPending / wait sequence is run once more
retryStart(err) == err = "ErrGone"

\* the answer of TaskStart once the switch is left
startAnswer(err, status) == IF err # "nil" THEN status ELSE "202"

\* a plausible slip: BucketNought is answered like any other error
resultAnswer_NoGone(x, taskAction) ==
    IF ~x.finished THEN [resp |-> "202", json |-> FALSE]
    ELSE IF x.err # "nil" THEN [resp |-> DefaultErrStatus, json |-> FALSE]
    ELSE [resp |-> "200", json |-> taskAction = "result"]

\* the answer to a poll of the task x by its Finished() and Result()
resultAnswer(x, taskAction) ==
    IF ~x.finished THEN [resp |-> "202", json |-> FALSE]
    ELSE IF x.err = "BucketNought" THEN [resp |-> "410", json |-> FALSE]
    ELSE IF x.err # "nil" THEN [resp |-> DefaultErrStatus, json |-> FALSE]
    ELSE [resp |-> "200", json |-> taskAction = "result"]

\* ---------------------------------------------- async dispatcher: actions

NoReq == [pc |-> "idle"]

AsyncInit ==
    /\ xact = NoXact
    /\ areq = NoReq

\* a request reaches doAsync
Enter ==
    /\ areq.pc = "idle"
    /\ UNCHANGED outsideAsync
    /\ \E action \in Actions, taskAction \in TaskActions, silent \in BOOLEAN :
        areq' = [pc |-> "entered", action |-> action, taskAction |-> taskAction,
                 silent |-> silent, ends |-> <<>>, status |-> "500", gone |-> FALSE,
                 resp |-> "none", json |-> FALSE]
    /\ UNCHANGED xact

\* the request is answered: status is the one written, json says a body was written
Answer(status, json) == areq' = [areq EXCEPT !.pc = "done", !.resp = status, !.json = json]

\* TaskStart, ActListObjects: RenewBckListNewXact, and IncPending on the task returned;
\* the registry returns the list task it has or makes a new one, or fails
RenewList ==
    /\ areq.pc \in {"entered", "again"}
    /\ areq.taskAction = "start" /\ areq.action = "list"
    /\ UNCHANGED outsideAsync
    /\ \E ok \in BOOLEAN :
        IF ok
        THEN /\ xact' = [(IF xact.kind = "list" THEN xact ELSE NewXact("list"))
                            EXCEPT !.pending = @ + 1]
             /\ areq' = [areq EXCEPT !.pc = "wait", !.gone = FALSE]
        ELSE /\ areq' = [areq EXCEPT !.pc = "answer", !.ends = Append(@, "other")]
             /\ UNCHANGED xact

\* waitBckListResp: the task's answer ends this run of the sequence; after the first
\* run the sequence is run again when the answer is ErrGone
WaitList ==
    /\ areq.pc = "wait"
    /\ UNCHANGED outsideAsync
    /\ \E r \in BckListResps(areq.gone) :
        areq' = [areq EXCEPT !.ends = Append(@, r.err), !.status = r.status,
                             !.pc = IF Len(areq.ends) = 0 /\ retryStart(r.err)
                                    THEN "again" ELSE "answer"]
    /\ xact' = IF areq.gone \/ xact.kind # "list" THEN xact
               ELSE [xact EXCEPT !.pending = @ - 1]

\* TaskStart, ActListObjects: the answer after the switch
AnswerStartList ==
    /\ areq.pc = "answer"
    /\ UNCHANGED outsideAsync
    /\ Answer(startAnswer(areq.ends[Len(areq.ends)], areq.status), FALSE)
    /\ UNCHANGED xact

\* TaskStart, ActSummaryBucket: RenewBckSummaryXact and the answer
StartSummary ==
    /\ areq.pc = "entered"
    /\ areq.taskAction = "start" /\ areq.action = "summary"
    /\ UNCHANGED outsideAsync
    /\ \E ok \in BOOLEAN :
        IF ok
        THEN /\ xact' = IF xact.kind = "summary" /\ ~xact.finished THEN xact
                        ELSE NewXact("summary")
             /\ Answer(startAnswer("nil", areq.status), FALSE)
        ELSE /\ Answer(startAnswer("other", areq.status), FALSE)
             /\ UNCHANGED xact

\* TaskStart with an action that is neither: invalmsghdlrf
StartInvalid ==
    /\ areq.pc = "entered"
    /\ areq.taskAction = "start" /\ areq.action = "other"
    /\ UNCHANGED outsideAsync
    /\ Answer(DefaultErrStatus, FALSE)
    /\ UNCHANGED xact

\* a poll: GetXact; no task, or ActListObjects on a task that is no list task, or
\* IncPending on the list task, or the answer by Finished() and Result()
Poll ==
    /\ areq.pc = "entered"
    /\ areq.taskAction # "start"
    /\ UNCHANGED outsideAsync
    /\ IF xact = NoXact
       THEN /\ Answer("404", FALSE)
            /\ UNCHANGED xact
       ELSE IF areq.action = "list"
       THEN IF xact.kind # "list"
            THEN /\ Answer(DefaultErrStatus, FALSE)
                 /\ UNCHANGED xact
            ELSE /\ areq' = [areq EXCEPT !.pc = "pollwait"]
                 /\ xact' = [xact EXCEPT !.pending = @ + 1]
       ELSE /\ LET a == resultAnswer(xact, areq.taskAction) IN Answer(a.resp, a.json)
            /\ UNCHANGED xact

\* a poll of a list task: waitBckListResp and the answer
PollWait ==
    /\ areq.pc = "pollwait"
    /\ UNCHANGED outsideAsync
    /\ \E r \in BckListResps(areq.gone) :
        areq' = [areq EXCEPT !.pc = "done", !.ends = Append(@, r.err),
                             !.status = r.status,
                             !.resp = IF r.err # "nil" THEN r.status
                                      ELSE IF areq.taskAction = "result" THEN "200"
                                      ELSE r.status,
                             !.json = r.err = "nil" /\ areq.taskAction = "result"]
    /\ xact' = IF areq.gone \/ xact.kind # "list" THEN xact
               ELSE [xact EXCEPT !.pending = @ - 1]

\* the request is over
Leave ==
    /\ areq.pc = "done"
    /\ UNCHANGED outsideAsync
    /\ areq' = NoReq
    /\ UNCHANGED xact

\* the registry evicts the task; a request that has got hold of it will be told ErrGone
Evict ==
    /\ xact # NoXact
    /\ UNCHANGED outsideAsync
    /\ xact' = NoXact
    /\ areq' = IF areq.pc \in {"wait", "pollwait"} THEN [areq EXCEPT !.gone = TRUE] ELSE areq

\* the task finishes, with or without an error
Finish ==
    /\ xact # NoXact
    /\ ~xact.finished
    /\ xact.pending = 0
    /\ UNCHANGED outsideAsync
    /\ \E err \in {"nil", "BucketNought", "other"} :
        xact' = [xact EXCEPT !.finished = TRUE, !.err = err]
    /\ UNCHANGED areq

AsyncNext ==
    \/ Enter
    \/ RenewList
    \/ WaitList
    \/ AnswerStartList
    \/ StartSummary
    \/ StartInvalid
    \/ Poll
    \/ PollWait
    \/ Leave
    \/ Evict
    \/ Finish

\* -------------------------------- transport: goroutines on a handler's maps

\* the goroutines: one receive loop per request, and a caller of GetNetworkStats
StatsCaller == "stats"
Goroutines == Reqs \cup {StatsCaller}

\* the accesses to h.sessions and h.oldSessions of the statement a goroutine is at
Accesses(g) ==
    IF at[g] \in {"find", "get", "range"} THEN {<<"sessions", "read">>}
    ELSE IF at[g] = "insert" THEN {<<"sessions", "write">>}
    ELSE IF at[g] = "sweep"
    THEN {<<"oldSessions", "read">>}
         \cup (IF Expired(oldSessions, now) # {}
               THEN {<<"oldSessions", "write">>, <<"sessions", "write">>} ELSE {})
    ELSE IF at[g] = "record" THEN {<<"oldSessions", "write">>}
    ELSE {}

\* two goroutines are on the same map and one of them changes it
Conflict(g1, g2) ==
    /\ g1 # g2
    /\ \E a1 \in Accesses(g1), a2 \in Accesses(g2) : a1[1] = a2[1] /\ a1[2] = "write"
Racing == \E g1, g2 \in Goroutines : Conflict(g1, g2)

ConcInit ==
    /\ mu = "free"
    /\ at = [g \in Goroutines |-> "idle"]
    /\ frame = [r \in Reqs |-> [sessid |-> 0, err |-> FALSE]]

\* it.next() returns to the loop of r; with sessid == 0 the iteration touches no map
ItNext(r) ==
    /\ at[r] = "idle"
    /\ UNCHANGED outsideMaps
    /\ \E sessid \in {0, SessOf(r)}, err \in BOOLEAN :
        /\ frame' = [frame EXCEPT ![r] = [sessid |-> sessid, err |-> err]]
        /\ at' = [at EXCEPT ![r] = IF sessid # 0 THEN "find" ELSE "idle"]
    /\ UNCHANGED <<sessions, oldSessions, mu>>

\* _, ok := h.sessions[sessid]
Find(r) ==
    /\ at[r] = "find"
    /\ UNCHANGED outsideMaps
    /\ at' = [at EXCEPT ![r] =
                IF sessions[frame[r].sessid] = NoStats THEN "insert" ELSE "get"]
    /\ UNCHANGED <<sessions, oldSessions, mu, frame>>

\* h.sessions[sessid] = &Stats{}
Insert(r) ==
    /\ at[r] = "insert"
    /\ UNCHANGED outsideMaps
    /\ sessions' = [sessions EXCEPT ![frame[r].sessid] = ZeroStats]
    /\ at' = [at EXCEPT ![r] = "get"]
    /\ UNCHANGED <<oldSessions, mu, frame>>

\* stats, _ = h.sessions[sessid]; an object goes to the callback and the loop goes on,
\* an error goes to the delayed cleanup
Get(r) ==
    /\ at[r] = "get"
    /\ UNCHANGED outsideMaps
    /\ at' = [at EXCEPT ![r] = IF frame[r].err THEN "sweep" ELSE "idle"]
    /\ UNCHANGED <<sessions, oldSessions, mu, frame>>

\* the range over h.oldSessions with its two deletes
Sweep(r) ==
    /\ at[r] = "sweep"
    /\ UNCHANGED outsideMaps
    /\ sessions' = cleanupSessions(sessions, oldSessions, now)
    /\ oldSessions' = [id \in Sids |-> IF id \in Expired(oldSessions, now) THEN NoTime
                                       ELSE oldSessions[id]]
    /\ at' = [at EXCEPT ![r] = "record"]
    /\ UNCHANGED <<mu, frame>>

\* h.oldSessions[sessid] = time.Now(), and the handler returns
Record(r) ==
    /\ at[r] = "record"
    /\ UNCHANGED outsideMaps
    /\ oldSessions' = [oldSessions EXCEPT ![frame[r].sessid] = {now}]
    /\ at' = [at EXCEPT ![r] = "idle"]
    /\ UNCHANGED <<sessions, mu, frame>>

\* GetNetworkStats: mu.Lock(), and the range over h.sessions begins
StatsLock ==
    /\ at[StatsCaller] = "idle"
    /\ mu = "free"
    /\ UNCHANGED outsideMaps
    /\ mu' = StatsCaller
    /\ at' = [at EXCEPT ![StatsCaller] = "range"]
    /\ UNCHANGED <<sessions, oldSessions, frame>>

\* GetNetworkStats: the range over h.sessions ends, and mu.Unlock()
StatsUnlock ==
    /\ at[StatsCaller] = "range"
    /\ UNCHANGED outsideMaps
    /\ mu' = "free"
    /\ at' = [at EXCEPT ![StatsCaller] = "idle"]
    /\ UNCHANGED <<sessions, oldSessions, frame>>

\* a map is changed while another goroutine is on it: the runtime may stop the
\* process (concurrent map read and map write), or the goroutines go on
Fatal ==
    /\ Racing
    /\ UNCHANGED outsideMaps
    /\ at' = [g \in Goroutines |-> "fatal"]
    /\ UNCHANGED <<sessions, oldSessions, mu, frame>>

ConcNext ==
    \/ \E r \in Reqs : ItNext(r)
    \/ \E r \in Reqs : Find(r)
    \/ \E r \in Reqs : Insert(r)
    \/ \E r \in Reqs : Get(r)
    \/ \E r \in Reqs : Sweep(r)
    \/ \E r \in Reqs : Record(r)
    \/ StatsLock
    \/ StatsUnlock
    \/ Fatal
    \/ Tick

\* ------------------------------------------------ transport: objReader

\* the buffers handed to Read are of 0..MaxBuf bytes
MaxBuf == 2
\* the objects announced are of 1..MaxObjSize bytes, when the size word is not wrapped
MaxObjSize == 3

\* the size words of the headers that make an objReader: 0 is the last-frame marker
DsizeWords == (1..MaxObjSize) \cup {2^(WordBits - 1), 2^WordBits - 1}

\* no objReader
NoReader == [state |-> "none"]
\* no Read yet
NoRead == [len |-> 0, n |-> 0, up |-> "nil", err |-> "nil"]

\* what obj.body.Read(b) may return for a buffer of len bytes: n and an error
BodyReads(len) == {[n |-> n, up |-> up] : n \in 0..len, up \in {"nil", "EOF", "other"}}

\* if rem < int64(len(b)) { b = b[:int(rem)] }: the length of b afterwards
clip(len, rem) == IF rem < len THEN rem ELSE len

\* the error Read returns after the upstream error up, with off already advanced
readErr(up, off, dsize) == IF up = "nil" /\ off >= dsize THEN "EOF" ELSE up

ReadInit == reader = NoReader

\* obj = &objReader{body: it.body, hdr: hdr}, the size decoded by extInt64
NewReader ==
    /\ reader = NoReader
    /\ UNCHANGED outsideRead
    /\ \E w \in DsizeWords :
        reader' = [state |-> "open", dsize |-> extInt64(w), off |-> 0, last |-> NoRead]

\* Read(b) with len(b) = len: slicing b to a negative length panics
ObjRead ==
    /\ reader # NoReader
    /\ reader.state = "open"
    /\ UNCHANGED outsideRead
    /\ \E len \in 0..MaxBuf :
        LET clipped == clip(len, reader.dsize - reader.off)
        IN  IF clipped < 0
            THEN reader' = [reader EXCEPT !.state = "panic"]
            ELSE \E r \in BodyReads(clipped) :
                    reader' = [reader EXCEPT
                                 !.off = @ + r.n,
                                 !.last = [len |-> len, n |-> r.n, up |-> r.up,
                                           err |-> readErr(r.up, reader.off + r.n,
                                                           reader.dsize)]]

\* the callback is done with the objReader
DropReader ==
    /\ reader # NoReader
    /\ UNCHANGED outsideRead
    /\ reader' = NoReader

ReadNext ==
    \/ NewReader
    \/ ObjRead
    \/ DropReader

\* ------------------------------------- LOM: callers of RestoreObjectFromAny

\* the goroutines calling RestoreObjectFromAny on LOMs of the same uname
Callers == {"g1", "g2"}

\* a caller outside RestoreObjectFromAny
NotCalling == [at |-> "idle", todo |-> <<>>, unlocks |-> 0]

\* a plausible slip: the function returns from inside the loop once it has restored
afterTry_ReturnInLoop(ok, rest) ==
    IF ok THEN "returned" ELSE IF rest = <<>> THEN "exhausted" ELSE "scan"

\* where the scan stands after a mountpath: it breaks out of the loop on a restore,
\* and leaves the loop when no mountpath is left
afterTry(ok, rest) ==
    IF ok THEN "restored" ELSE IF rest = <<>> THEN "exhausted" ELSE "scan"

LockInit ==
    /\ wlock = "free"
    /\ restorer = [g \in Callers |-> NotCalling]

\* lom.Lock(true): the caller waits until the lock is free
RLock(g) ==
    /\ restorer[g].at = "idle"
    /\ wlock = "free"
    /\ UNCHANGED outsideLock
    /\ wlock' = g
    /\ restorer' = [restorer EXCEPT ![g] = [at |-> "load", todo |-> <<>>, unlocks |-> 0]]
    /\ UNCHANGED <<copies, dirty, files>>

\* lom.Load(): it succeeds, or it fails and the available mountpaths are taken to scan
RLoad(g) ==
    /\ restorer[g].at = "load"
    /\ UNCHANGED outsideLock
    /\ \E loaded \in BOOLEAN :
        IF loaded /\ lomFQN \in files
        THEN restorer' = [restorer EXCEPT ![g].at = "loaded"]
        ELSE \E status \in AvailSnapshots :
             \E avail \in {RangeOrder(order, {m \in Mpaths : status[m] # "absent"})
                              : order \in MpathOrders} :
                restorer' = [restorer EXCEPT ![g].at = afterTry(FALSE, avail),
                                             ![g].todo = avail]
    /\ UNCHANGED <<wlock, copies, dirty, files>>

\* one round of the loop: the mountpath is passed over, or _restore is tried on it and
\* on success lom.md = dst.md
RTry(g) ==
    /\ restorer[g].at = "scan"
    /\ UNCHANGED outsideLock
    /\ LET path == Head(restorer[g].todo)
           rest == Tail(restorer[g].todo)
           fqn == MakePathFQN(path)
       IN  IF path = lomMpath \/ fqn \notin files
           THEN /\ restorer' = [restorer EXCEPT ![g].at = afterTry(FALSE, rest),
                                                ![g].todo = rest]
                /\ UNCHANGED <<copies, dirty, files>>
           ELSE \E o \in restoreOne(fqn, files) :
                /\ restorer' = [restorer EXCEPT ![g].at = afterTry(~o.err, rest),
                                                ![g].todo = rest]
                /\ files' = o.files
                /\ IF o.err THEN UNCHANGED <<copies, dirty>>
                   ELSE copies' = o.dstCopies /\ dirty' = FALSE
    /\ UNCHANGED wlock

\* lom.Unlock(true), after the load of the current location or after the loop, and
\* the return
RUnlock(g) ==
    /\ restorer[g].at \in {"loaded", "restored", "exhausted"}
    /\ UNCHANGED outsideLock
    /\ wlock' = IF wlock = g THEN "free" ELSE wlock
    /\ restorer' = [restorer EXCEPT ![g].at = "returned", ![g].unlocks = @ + 1]
    /\ UNCHANGED <<copies, dirty, files>>

\* the caller goes on; it has the lock no more if it has released it
RDone(g) ==
    /\ restorer[g].at = "returned"
    /\ wlock # g
    /\ UNCHANGED outsideLock
    /\ restorer' = [restorer EXCEPT ![g] = NotCalling]
    /\ UNCHANGED <<wlock, copies, dirty, files>>

\* what os.Stat will find on the mountpaths: while nobody holds the lock, replicas
\* of the object appear on them and disappear from them
FilesChange ==
    /\ wlock = "free"
    /\ UNCHANGED outsideLock
    /\ \E f \in FQNS : files' \in {files \cup {f}, files \ {f}}
    /\ files' # files
    /\ UNCHANGED <<wlock, restorer, copies, dirty>>

LockNext ==
    \/ \E g \in Callers : RLock(g)
    \/ \E g \in Callers : RLoad(g)
    \/ \E g \in Callers : RTry(g)
    \/ \E g \in Callers : RUnlock(g)
    \/ \E g \in Callers : RDone(g)
    \/ FilesChange

\* ------------------------------------------------------- specifications

Init == LomInit /\ RecvInit /\ AsyncInit /\ ConcInit /\ ReadInit /\ LockInit

Next == LomNext

Spec == Init /\ [][Next]_vars

RecvSpec == Init /\ [][RecvNext]_vars

AsyncSpec == Init /\ [][AsyncNext]_vars

ConcSpec == Init /\ [][ConcNext]_vars

ReadSpec == Init /\ [][ReadNext]_vars

LockSpec == Init /\ [][LockNext]_vars

\* ------------------------------------------------------------ LOM: claims

\* C1: in every reachable state, a non-empty copies map contains the LOM's own FQN.
C1_OwnFQNInCopies == Keys(copies) # {} => lomFQN \in Keys(copies)

\* C2: after any copy-management operation returns, the copies map never has exactly
\* one entry.
C2_NeverOneEntry == NumEntries(copies) # 1

C4_DelCopiesRemoved ==
    (ret.op \in {"DelCopies", "DelAllCopies"} /\ ~ret.err) => ret.F \cap Keys(copies) = {}

\* C4, its case: DelCopies of one of two copies has returned without error, and the
\* other copy is still registered.
C4_Witness ==
    /\ ret.op = "DelCopies"
    /\ ~ret.err
    /\ ret.F # {}
    /\ NumEntries(copies) = 2

\* C5: if any input FQN is not in copies, DelCopies fails and leaves the copies map and
\* the files exactly as they were before the call.
C5_DelCopiesAtomic ==
    [][(Idle /\ ret'.op = "DelCopies" /\ (ret'.err \/ ret'.F \ Keys(copies) # {})) =>
           /\ ret'.err
           /\ copies' = copies
           /\ files' = files]_vars

\* the utilization of the mountpath of a copy in the snapshot LBGet took
UtilOf(f) == ret.utils[copies[f]]

C7_ToMpathIsHrw ==
    ret.op = "ToMpath" =>
        /\ ret.isHrw <=> (ret.hrwMi # NoMpi /\ lomMpath # ret.hrwMi)
        /\ ret.isHrw => ret.mi = ret.hrwMi

\* C7, its cases: ToMpath has sent the object to its HRW mountpath; and ToMpath has
\* found the LOM at its HRW mountpath and returned a mountpath for a new copy.
C7_Witness ==
    /\ ret.op = "ToMpath"
    /\ ret.isHrw
    /\ ret.mi = ret.hrwMi

C7_WitnessAtHrw ==
    /\ ret.op = "ToMpath"
    /\ ~ret.isHrw
    /\ ret.hrwMi = lomMpath
    /\ ret.mi \notin {NoMpi, lomMpath}

\* ------------------------------------------------------ transport: claims

\* the frames of request r on which the loop has decided whether to call back
Decided(r) == IF pc[r] = "callback" THEN Len(arrived[r]) - 1 ELSE Len(arrived[r])

\* frame i of request r is a frame of the stream, as sent, that is no last marker
NonTerminal(r, i) == arrived[r][i] # Garbage /\ ~IsLast(arrived[r][i])

\* C8: within one PUT request the callback is invoked exactly once for every
\* non-terminal frame and never for a last-marker frame, in the frames' arrival order,
\* each invocation completing before the next frame's header is parsed.
C8_CallbackOncePerFrame ==
    \A r \in Reqs :
        called[r] = SelectSeq([i \in 1..Decided(r) |-> i], LAMBDA i : NonTerminal(r, i))

\* the frames of the session id s, as sent, and those of them given to the callback
FramesOf(s) ==
    {<<r, i>> \in Reqs \X (1..MaxFrames + 1) :
        i <= Len(arrived[r]) /\ arrived[r][i] # Garbage /\ arrived[r][i].sessid = s}
CalledOf(s) == {f \in FramesOf(s) : \E k \in 1..Len(called[f[1]]) : called[f[1]][k] = f[2]}

RECURSIVE SumDsize(_)
SumDsize(F) == IF F = {} THEN 0
               ELSE LET f == CHOOSE g \in F : TRUE
                    IN  arrived[f[1]][f[2]].dsize + SumDsize(F \ {f})

\* the Stats of a session id: zeros when the handler holds none
StatsOf(s) == IF s \in Sids /\ sessions[s] # NoStats THEN sessions[s] ELSE ZeroStats

\* no request stands between the arrival of a frame and the end of its handling
Quiescent == \A r \in Reqs : pc[r] \notin {"callback", "stats"}

\* C9: for every session id, after each of its frames has been processed, stats.num is
\* the number of callback invocations for that session id, stats.size the sum of dsize
\* of its delivered objects, and stats.offset the sum of hlen + 16 + dsize over its frames.
C9_StatsMatchFrames ==
    Quiescent =>
        \A s \in SessIds \ swept :
            /\ StatsOf(s).num = Cardinality(CalledOf(s))
            /\ StatsOf(s).size = SumDsize(CalledOf(s))
            /\ StatsOf(s).offset =
                   Cardinality(FramesOf(s)) * (HdrLen + 2 * sizeofI64) + SumDsize(FramesOf(s))

\* request r takes the step that ends its handling of a frame that has arrived on a
\* session (an id other than 0)
FrameHandled(r) ==
    /\ cur[r].sessid # 0
    /\ \/ pc[r] = "stats" /\ pc'[r] = "next"
       \/ pc[r] = "term" /\ pc'[r] = "done"

\* request r takes the step that ends its loop on a last-marker frame of a session id
\* other than 0
LastFrameHandled(r) == pc[r] = "term" /\ pc'[r] = "done" /\ cur[r].sessid # 0

\* C10 as stated: every entry of old_sessions older than cleanupTimeout is absent from
\* old_sessions and from sessions once the next frame that arrives, on any session of
\* the handler, has been handled.
C10_SweepOnAnyFrame ==
    [][\A r \in Reqs : FrameHandled(r) =>
           \A id \in Expired(oldSessions, now) :
               sessions'[id] = NoStats /\ oldSessions'[id] = NoTime]_vars

\* C10 as amended: entries leave old_sessions only when a request's loop ends on a
\* last-marker frame with a session id other than 0; that step leaves no entry older
\* than cleanupTimeout in sessions, and none in old_sessions but the one it records
\* for its own session id with the current time.
C10_SweepOnLastFrame ==
    [][/\ \A r \in Reqs : LastFrameHandled(r) =>
              \A id \in Expired(oldSessions, now) :
                  /\ sessions'[id] = NoStats
                  /\ oldSessions'[id] = IF id = cur[r].sessid THEN {now} ELSE NoTime
       /\ (\E id \in Sids : oldSessions[id] # NoTime /\ oldSessions'[id] # oldSessions[id])
              => \E r \in Reqs : LastFrameHandled(r)]_vars

\* C10, its case: a request has ended on the last marker of its session, and the
\* cleanup has then taken another session, closed long before, out of both maps.
C10_Witness ==
    \E r \in Reqs :
        /\ pc[r] = "done"
        /\ cur[r].sessid # 0
        /\ oldSessions[cur[r].sessid] = {now}
        /\ \E id \in swept : sessions[id] = NoStats /\ oldSessions[id] = NoTime

\* the header-length word of the prefix request r last read exceeds MaxHeaderSize
Oversized(r) == cur[r].hl > MaxHeaderSize

\* C11: for every unsigned value hl > MaxHeaderSize of the header-length word, values
\* with the top bit set included, the parser fails with stream breakage #1 before it
\* compares the checksum or reads the header, no callback is invoked, and the request
\* is answered with HTTP 400.
C11_OversizedIsBreakage1 ==
    \A r \in Reqs : Oversized(r) =>
        /\ cur[r].err = "breakage1"
        /\ pc[r] \in {"term", "done"}
        /\ pc[r] = "done" => resp[r] = "400"

\* the prefix request r last read has a header length within MaxHeaderSize and a hash
\* word that is not the hash of it
BadChecksum(r) == cur[r].hl <= MaxHeaderSize /\ cur[r].checksum # Hash(cur[r].hl)

\* C12: a frame whose hash word differs from xoshiro256(hlen), hlen within
\* MaxHeaderSize, is never dispatched: the parser fails with stream breakage #2, the
\* callback is invoked neither for it nor for any later frame of the request, and the
\* request is answered with HTTP 400.
C12_BadChecksumIsBreakage2 ==
    \A r \in Reqs : BadChecksum(r) =>
        /\ cur[r].err = "breakage2"
        /\ ~cur[r].obj
        /\ pc[r] \in {"term", "done"}
        /\ pc[r] = "done" => resp[r] = "400"

\* C12, its case: a request that has had an object delivered has then met a tampered
\* hash word and has been answered 400, the callback invoked for the object only.
C12_Witness ==
    \E r \in Reqs :
        /\ BadChecksum(r)
        /\ pc[r] = "done"
        /\ resp[r] = "400"
        /\ Len(called[r]) = 1

\* request r has started its session: the handler holds the Stats made for it
Started(r) == sessions[SessOf(r)] # NoStats

\* C13: whenever a request's loop ends on a terminal error (the last frame's EOF, a
\* stream breakage, a body Read error) after the request has started a session, that
\* session's id is recorded in old_sessions with the current time; and the request is
\* answered with HTTP 400 when the error is not EOF.
C13_TerminalRecordsSession ==
    [][\A r \in Reqs : (pc[r] = "term" /\ pc'[r] = "done") =>
           /\ Started(r) => oldSessions'[SessOf(r)] = {now}
           /\ cur[r].err # "EOF" => resp'[r] = "400"]_vars


\* the parser of r has read fewer than 16 bytes of a frame prefix with a nil error: its
\* assertion has failed (no header length word has been read, and none is negative)
PrefixAssertFailed(r) == pc[r] = "panic" /\ ~cur[r].obj /\ cur[r].hl = 0
\* a header payload read of r has returned fewer than hlen bytes with a nil error: the
\* parser has gone on from there and has lost the frame boundaries
HeaderReadShort(r) == desync[r]

\* C24: whenever the frame parser gets fewer than 16 bytes from its read of the frame
\* prefix the read's error is non-nil, so its assertion never fails, for every body
\* reader that may return fewer bytes than asked for with a nil error; and the header
\* payload read yields exactly hlen bytes before the header is parsed.
C24_NoShortReadWithoutError ==
    \A r \in Reqs : ~PrefixAssertFailed(r) /\ ~HeaderReadShort(r)

\* the frame parsed last for r has yielded an object for the callback, and the three
\* additions to its Stats are still to come
ObjectYielded(r) == pc[r] \in {"callback", "stats"}

\* C26: the receive loop never updates statistics through a missing Stats entry:
\* whenever a parsed frame yields an object for the callback, a Stats entry for the
\* frame's session id exists, for every session id value, 0 included.
C26_StatsEntryExists ==
    \A r \in Reqs :
        ObjectYielded(r) =>
            /\ cur[r].sessid \in Sids
            /\ sessions[cur[r].sessid] # NoStats

\* ----------------------------------------------- claims: LOM, second part

\* ToMpath returns in this step, having found the LOM at its HRW mountpath
ToMpathAtHrw == ret.op = "none" /\ ret'.op = "ToMpath" /\ ret'.hrwMi = lomMpath
\* the copies, as the call found them, that the pruning by the snapshot st leaves
Surviving(st) == {f \in Keys(copies) : st[copies[f]] = "avail"}
\* the mountpaths a new copy may go to, as the call found the copies: available, not
\* flagged, not the LOM's own, and holding no copy
Candidates(st) ==
    {m \in Mpaths : /\ st[m] = "avail"
                    /\ m # lomMpath
                    /\ ~\E f \in Keys(copies) : copies[f] = m}

\* C17: at its HRW mountpath, ToMpath returns (nil, false) if mirroring is disabled,
\* Copies < 2, or the copies surviving the pruning are at least Copies; otherwise
\* (mi, false) with mi a least utilized mountpath among those available, not
\* WaitingDD, not the LOM's own and holding no copy, or nil when there is none.
C17_ToMpathPlacesLeastUtil ==
    [][ToMpathAtHrw =>
        /\ ~ret'.isHrw
        /\ (~ret'.enabled \/ ret'.expCopies < 2) => ret'.mi = NoMpi
        /\ (ret'.enabled /\ ret'.expCopies >= 2) =>
            IF Cardinality(Surviving(ret'.status)) >= ret'.expCopies
            THEN ret'.mi = NoMpi
            ELSE LET cand == Candidates(ret'.status)
                 IN  IF cand = {} THEN ret'.mi = NoMpi
                     ELSE /\ ret'.mi \in cand
                          /\ \A m \in cand : ret'.utils[ret'.mi] <= ret'.utils[m]]_vars

\* syncMetaWithCopies returns in this step, under immediate write policy
SyncedImmediate == ret.op = "none" /\ ret'.op = "syncMetaWithCopies" /\ ret'.immediate
\* a copies map with at most one entry is reset
Normalized(c) == IF NumEntries(c) <= 1 THEN NilCopies ELSE c

\* C18: under immediate write policy syncMetaWithCopies terminates for any pattern of
\* persist failures: every failed round removes the failing copy, which was in copies,
\* so there are no more rounds than copies; on return the metadata was persisted on
\* every copy still in copies, or copies is empty; copies that did not fail are
\* removed only by the normalization of a single remaining entry.
C18_SyncMetaTerminates ==
    [][SyncedImmediate =>
        LET dropped == ret'.dropped
            failing == {dropped[i] : i \in 1..Len(dropped)}
            left == [f \in FQNS |-> IF f \in failing THEN NoMpi ELSE copies[f]]
        IN  /\ failing \subseteq Keys(copies)
            /\ Cardinality(failing) = Len(dropped)
            /\ Len(dropped) <= NumEntries(copies)
            /\ failing \cap Keys(copies') = {}
            /\ \/ Keys(copies') \ {lomFQN} \subseteq ret'.persisted
               \/ Keys(copies') = {}
            /\ HasCopies(copies) => copies' = Normalized(left)
            /\ ~HasCopies(copies) => copies' = copies]_vars

\* syncMetaWithCopies has returned after a failed round with copies left, all persisted
C18_Witness ==
    /\ ret.op = "syncMetaWithCopies"
    /\ ret.immediate
    /\ Len(ret.dropped) = 1
    /\ NumEntries(copies) = 2
    /\ ret.persisted # {}

\* Copy returns in this step, its Persist having failed
CopyPersistFailed == ret.op = "none" /\ ret'.op = "Copy" /\ ret'.persistErr

\* C19: if Persist fails inside Copy(mi), Copy returns that error and the copies map
\* on return equals the copies map before the call, also when the destination was a
\* registered copy found identical and not copied again.
C19_CopyUndoneOnPersistFailure ==
    [][CopyPersistFailed => ret'.err /\ copies' = copies]_vars

\* a mirror-case Copy2FQN has returned without error
MirrorCopied == ret.op = "Copy2FQN" /\ ret.isMirror /\ ~ret.err

\* C20: after a mirror-case Copy2FQN(dstFQN) that returns without error, the source's
\* and the destination's copies maps both hold dstFQN with the destination mountpath
\* and the source FQN with the source mountpath, and they have the same keys.
C20_MirrorCopyInBothMaps ==
    MirrorCopied =>
        /\ copies[ret.dst] = MpathOf(ret.dst)
        /\ copies[lomFQN] = lomMpath
        /\ ret.dstCopies[ret.dst] = MpathOf(ret.dst)
        /\ ret.dstCopies[lomFQN] = lomMpath
        /\ Keys(copies) = Keys(ret.dstCopies)

\* Copy2FQN returns in this step, the destination's checksum differing from the source's
CksumMismatch == ret.op = "none" /\ ret'.op = "Copy2FQN" /\ ret'.dstNil

\* C21: when the destination checksum differs from the source checksum, Copy2FQN
\* returns the error with no destination LOM, dstFQN is added to neither copies map,
\* and no file is left at dstFQN.
C21_MismatchLeavesNothing ==
    [][CksumMismatch =>
        /\ ret'.err
        /\ copies' = copies
        /\ ret'.dstCopies = NilCopies
        /\ ret'.dst \notin files']_vars

\* RestoreObjectFromAny returns in this step
Restored == ret.op = "none" /\ ret'.op = "RestoreObjectFromAny"

\* C22: RestoreObjectFromAny returns true if and only if the current location loads
\* or another mountpath holds the object and Copy2FQN from it succeeds; md is unchanged
\* when the current location loads and when it returns false; when it restores, md is
\* the destination's md and the scan has stopped at the first successful mountpath.
C22_RestoreFromFirst ==
    [][Restored =>
        /\ ret'.exists <=> (ret'.loaded \/ ret'.from # NoMpi)
        /\ ret'.loaded => (lomFQN \in files /\ copies' = copies /\ dirty' = dirty)
        /\ ~ret'.exists => (copies' = copies /\ dirty' = dirty)
        /\ ret'.from # NoMpi =>
            /\ ~ret'.loaded
            /\ ret'.from # lomMpath
            /\ MakePathFQN(ret'.from) \in files
            /\ copies' = ret'.dstCopies
            /\ lomFQN \in files'
            /\ ret'.tried[Len(ret'.tried)] = ret'.from
            /\ \A i, j \in 1..Len(ret'.tried) : ret'.tried[i] = ret'.tried[j] => i = j]_vars

\* the object has been restored from the second mountpath tried
C22_Witness ==
    /\ ret.op = "RestoreObjectFromAny"
    /\ ret.exists
    /\ ~ret.loaded
    /\ Len(ret.tried) = 2
    /\ ret.from = ret.tried[2]
    /\ copies = ret.dstCopies

\* C25: DelExtraCopies never unlinks the LOM's own file: for every LOM that is not
\* itself a copy, one whose copies map is empty included, the file at lom.FQN is not
\* among the files DelExtraCopies removes.
C25_OwnFileKept ==
    ret.op = "DelExtraCopies" => lomFQN \notin ret.unlinked

\* ------------------------------------------------ claims: async dispatcher

\* the request is a TaskStart for list-objects
StartsList == areq.pc # "idle" /\ areq.taskAction = "start" /\ areq.action = "list"
\* how the last run of the sequence ended
LastEnd == areq.ends[Len(areq.ends)]

\* C14: in TaskStart for list-objects the renew / IncPending / wait sequence runs a
\* second time if and only if the first run ended with ErrGone, and never a third time;
\* a second ErrGone is answered as a failure, and the answer is 202 Accepted exactly
\* when the last run ended without error.
C14_StartRetriesOnceOnGone ==
    StartsList =>
        /\ Len(areq.ends) <= 2
        /\ Len(areq.ends) = 2 => areq.ends[1] = "ErrGone"
        /\ (areq.pc \in {"answer", "done"} /\ Len(areq.ends) = 1) => areq.ends[1] # "ErrGone"
        /\ areq.pc = "done" => (areq.resp = "202" <=> LastEnd = "nil")

\* a TaskStart for list-objects whose two runs both ended with ErrGone has been answered
C14_Witness ==
    /\ StartsList
    /\ areq.pc = "done"
    /\ areq.ends = <<"ErrGone", "ErrGone">>
    /\ areq.resp # "202"

\* a TaskStart for list-objects answered 202 after a second run
C14_WitnessAccepted ==
    /\ StartsList
    /\ areq.pc = "done"
    /\ areq.ends = <<"ErrGone", "nil">>
    /\ areq.resp = "202"

\* a poll is answered in this step without waiting for a list task
PollAnswered == areq.pc = "entered" /\ areq.taskAction # "start" /\ areq'.pc = "done"
\* a poll that waited for a list task is answered in this step
ListPollAnswered == areq.pc = "pollwait" /\ areq'.pc = "done"

\* the answer the task's state calls for
StateOutcome(x) ==
    IF ~x.finished THEN "202"
    ELSE IF x.err = "BucketNought" THEN "410"
    ELSE IF x.err # "nil" THEN "500"
    ELSE "200"
\* the result JSON is written
WithResult(x, taskAction) == x.finished /\ x.err = "nil" /\ taskAction = "result"

\* C15 as stated: the outcome of a poll is determined by the task's state: no task is
\* 404, a summary task still running 202, finished with BucketNought 410, finished
\* with another error 500, finished without error 200, with the result JSON when
\* taskAction is result.
C15_PollByTaskState ==
    [][PollAnswered =>
        /\ xact = NoXact => areq'.resp = "404"
        /\ xact.kind = "summary" =>
            /\ areq'.resp = StateOutcome(xact)
            /\ areq'.json = WithResult(xact, areq.taskAction)]_vars

\* C15 amended: the task's state determines the outcome of polls whose action is not
\* list-objects; a list-objects poll of a task that is no list task is an error, and a
\* list-objects poll of a list task is answered by what the task reports.
C15_PollByActionAndTaskState ==
    [][/\ PollAnswered =>
            /\ xact = NoXact => areq'.resp = "404" /\ ~areq'.json
            /\ (xact # NoXact /\ areq.action # "list") =>
                /\ areq'.resp = StateOutcome(xact)
                /\ areq'.json = WithResult(xact, areq.taskAction)
            /\ (xact # NoXact /\ areq.action = "list") =>
                /\ xact.kind # "list"
                /\ areq'.resp = "500" /\ ~areq'.json
       /\ ListPollAnswered =>
            /\ areq.action = "list"
            /\ LET err == areq'.ends[Len(areq'.ends)] IN
                /\ err # "nil" => areq'.resp = areq'.status /\ ~areq'.json
                /\ (err = "nil" /\ areq.taskAction = "result") =>
                        areq'.resp = "200" /\ areq'.json
                /\ (err = "nil" /\ areq.taskAction # "result") =>
                        areq'.resp = areq'.status /\ ~areq'.json]_vars

\* the result of a summary task that finished with BucketNought has been asked for
C15_Witness ==
    /\ areq.pc = "done"
    /\ areq.taskAction = "result" /\ areq.action = "summary"
    /\ xact # NoXact
    /\ xact.kind = "summary" /\ xact.finished /\ xact.err = "BucketNought"
    /\ areq.resp = "410" /\ ~areq.json


\* ------------------------------------- claims: goroutines on a handler's maps

\* C16: structural changes of a handler's sessions map and old_sessions map are
\* serialized by the package-level mutex: no session entry is inserted or deleted
\* while another goroutine is reading or changing the same map.
C16_MapChangesSerialized ==
    \A g \in Goroutines :
        (\E a \in Accesses(g) : a[2] = "write") =>
            \A other \in Goroutines : ~Conflict(g, other)


\* ------------------------------------------------------ claims: objReader

\* C23: for any sequence of Read calls on one objReader and any buffer sizes, the
\* bytes taken from the body never exceed hdr.Dsize (0 <= off <= Dsize always), and a
\* Read whose upstream read returns no error reports EOF exactly when off has reached
\* Dsize.
C23_ReadWithinDsize ==
    reader # NoReader =>
        /\ reader.state # "panic"
        /\ 0 <= reader.off /\ reader.off <= reader.dsize
        /\ reader.last.n <= reader.last.len
        /\ reader.last.up = "nil" => (reader.last.err = "EOF" <=> reader.off = reader.dsize)


\* ------------------------------- claims: callers of RestoreObjectFromAny

\* the caller is between its Lock and its Unlock
Between(g) == restorer[g].at \in {"load", "loaded", "scan", "restored", "exhausted"}

\* C27: RestoreObjectFromAny holds the LOM's exclusive lock from before its first Load
\* until it has finished changing md, and has released it exactly once on every
\* return path; two concurrent calls for the same uname never overlap between acquire
\* and release.
C27_RestoreUnderLock ==
    /\ [](\A g \in Callers :
            /\ Between(g) => (wlock = g /\ restorer[g].unlocks = 0)
            /\ restorer[g].at = "returned" => (wlock # g /\ restorer[g].unlocks = 1))
    /\ [](\A g, h \in Callers : (Between(g) /\ Between(h)) => g = h)
    /\ [][<<copies, dirty>>' # <<copies, dirty>> =>
            \E g \in Callers : wlock = g /\ wlock' = g /\ restorer[g].at = "scan"]_vars

\* a caller has restored the object and still holds the lock the other waits for
C27_Witness ==
    \E g, h \in Callers :
        /\ restorer[g].at = "restored"
        /\ wlock = g
        /\ restorer[h].at = "idle"
        /\ copies[lomFQN] = lomMpath

====
